---------------------------- MODULE Spec2Model ----------------------------
(***************************************************************************)
(* Flight-offer aggregation scripts of the repository.                     *)
(*                                                                         *)
(*   src/index.ts          date-range sweep: one Google Flights query per  *)
(*                         departure date, parseFlight / isValidFlight on  *)
(*                         every extracted record, sort by price, report   *)
(*   src/unnamed/part_000  single fixed query: act, act, extract, sort,    *)
(*                         report                                          *)
(*                                                                         *)
(* Texts (price, duration) are sequences of one-character strings, so that *)
(* the regular expressions and parseInt / parseFloat are computed, not     *)
(* assumed.  Instants are hours since 2024-09-27T00:00Z.                   *)
(***************************************************************************)
EXTENDS Integers, Sequences, FiniteSets

VARIABLES
    variant,     \* which script runs: "sweep" (index.ts) or "single" (part_000)
    tz,          \* time zone of the process (Date#getDate / setDate are local)
    pc,          \* position of run()/main(): the await the script is suspended at
    session,     \* the Stagehand session: "none", "open", "closed"
    fault,       \* the call whose promise rejected, "none" while none did
    d,           \* the loop variable d of the sweep (an instant)
    allFlights,  \* index.ts: the accumulation array allFlights
    units,       \* log of completed query units: [iso, flights] per extraction
    reported,    \* the array handed to console.log / stagehand.log
    ranked,      \* how many times Array#sort ran on the accumulation
    durText,     \* argument of a direct parseDuration call
    durResult,   \* its return value
    rawIn,       \* argument of a direct parseFlight call
    parsedOut,   \* its return value
    validOut     \* return value of isValidFlight(parsedOut)

vars == << variant, tz, pc, session, fault, d, allFlights, units, reported,
           ranked, durText, durResult, rawIn, parsedOut, validOut >>

runVars == << variant, tz, session, fault, d, allFlights, units, reported, ranked >>
probeVars == << durText, durResult, rawIn, parsedOut, validOut >>

-----------------------------------------------------------------------------
(* Bounds of the model *)

\* longest duration text given to a direct parseDuration call
MaxTextLen == 5
\* longest layovers array given to a direct parseFlight call
MaxLayovers == 2
\* most records one page.extract call returns in the model
MaxPerUnit == 2
\* most records extracted over a whole run in the model
MaxRecords == 3
\* fractional digits a numeric price keeps in the model
PriceScale == 2

-----------------------------------------------------------------------------
(* Characters and numbers *)

Digits == {"0", "1", "2", "3", "4", "5", "6", "7", "8", "9"}

IsDigit(c) == c \in Digits

\* \s of the regular expressions; the texts of the model use the blank only
IsSpace(c) == c = " "

DigitVal(c) ==
    CASE c = "0" -> 0 [] c = "1" -> 1 [] c = "2" -> 2 [] c = "3" -> 3
      [] c = "4" -> 4 [] c = "5" -> 5 [] c = "6" -> 6 [] c = "7" -> 7
      [] c = "8" -> 8 [] c = "9" -> 9

RECURSIVE Pow10(_)
Pow10(n) == IF n = 0 THEN 1 ELSE 10 * Pow10(n - 1)

Min(S) == CHOOSE x \in S : \A y \in S : x <= y

\* parseInt(digits, 10) of a non-empty run of decimal digits
RECURSIVE parseInt(_)
parseInt(s) ==
    IF s = << >> THEN 0
    ELSE 10 * parseInt(SubSeq(s, 1, Len(s) - 1)) + DigitVal(s[Len(s)])

\* An optional value: << >> is undefined / null, << x >> is x.
Absent == << >>
Some(x) == << x >>

-----------------------------------------------------------------------------
(* parseDuration, src/index.ts:15-21 *)

\* end (exclusive) of the greedy \d+ starting at i
RECURSIVE DigitsEnd(_, _)
DigitsEnd(text, i) ==
    IF i <= Len(text) /\ IsDigit(text[i]) THEN DigitsEnd(text, i + 1) ELSE i

\* end (exclusive) of the greedy \s* starting at i
RECURSIVE SpaceEnd(_, _)
SpaceEnd(text, i) ==
    IF i <= Len(text) /\ IsSpace(text[i]) THEN SpaceEnd(text, i + 1) ELSE i

\* duration.match(/(\d+)\s*<marker>/): the capture group of the leftmost match
\* at or after i, Absent when there is none.  Giving back digits of the greedy
\* \d+ never helps (the next character would be a digit), so a start position
\* matches exactly when its whole digit run, then blanks, then the marker do.
RECURSIVE MatchFrom(_, _, _)
MatchFrom(text, marker, i) ==
    IF i > Len(text) THEN Absent
    ELSE LET j == DigitsEnd(text, i)
             k == SpaceEnd(text, j)
         IN  IF j > i /\ k <= Len(text) /\ text[k] = marker
             THEN Some(SubSeq(text, i, j - 1))
             ELSE MatchFrom(text, marker, i + 1)

Match(text, marker) == MatchFrom(text, marker, 1)

parseDuration_DropsLoneMinutes(duration) ==
    LET hMatch == Match(duration, "h")
        mMatch == Match(duration, "m")
        hours == IF hMatch # Absent THEN parseInt(hMatch[1]) ELSE 0
        minutes == IF hMatch # Absent /\ mMatch # Absent
                   THEN parseInt(mMatch[1]) ELSE 0
    IN  hours * 60 + minutes

parseDuration(duration) ==
    LET hMatch == Match(duration, "h")
        mMatch == Match(duration, "m")
        hours == IF hMatch # Absent THEN parseInt(hMatch[1]) ELSE 0
        minutes == IF mMatch # Absent THEN parseInt(mMatch[1]) ELSE 0
    IN  hours * 60 + minutes

-----------------------------------------------------------------------------
(* parseFlight, src/index.ts:23-30 *)

\* A JavaScript number as far as the scripts use it: NaN, or a non-negative
\* decimal kept as an integer count of 10^-PriceScale.
NaN == [nan |-> TRUE, v |-> 0]
Num(v) == [nan |-> FALSE, v |-> v]

\* price.replace(/[^0-9.]/g, "")
StripPrice(price) == SelectSeq(price, LAMBDA c : IsDigit(c) \/ c = ".")

\* the first n digits of a digit run as an integer scaled to n places
FracValue(s, n) ==
    LET kept == SubSeq(s, 1, IF Len(s) < n THEN Len(s) ELSE n)
    IN  parseInt(kept) * Pow10(n - Len(kept))

\* parseFloat of a text of digits and points: the longest prefix that is a
\* decimal literal (digits, optionally a point and digits, at least one
\* digit); NaN when no prefix is one.
parseFloat(s) ==
    LET i == DigitsEnd(s, 1)
        hasPoint == i <= Len(s) /\ s[i] = "."
        j == IF hasPoint THEN DigitsEnd(s, i + 1) ELSE i
        intDigits == SubSeq(s, 1, i - 1)
        fracDigits == IF hasPoint THEN SubSeq(s, i + 1, j - 1) ELSE << >>
    IN  IF intDigits = << >> /\ fracDigits = << >> THEN NaN
        ELSE Num(parseInt(intDigits) * Pow10(PriceScale)
                 + FracValue(fracDigits, PriceScale))

\* (flight.layovers || []).map((l) => parseDuration(l))
LayoverMinutes(layovers) ==
    LET ls == IF layovers = Absent THEN << >> ELSE layovers[1]
    IN  [i \in 1..Len(ls) |-> parseDuration(ls[i])]

parseFlight(flight) ==
    [airlines |-> flight.airlines,
     price |-> flight.price,
     totalDuration |-> flight.totalDuration,
     stops |-> flight.stops,
     layovers |-> flight.layovers,
     numericPrice |-> parseFloat(StripPrice(flight.price)),
     totalMinutes |-> parseDuration(flight.totalDuration),
     layoverMinutes |-> LayoverMinutes(flight.layovers)]

-----------------------------------------------------------------------------
(* isValidFlight, src/index.ts:32-39 *)

maxLayover == 5 * 60

isValidFlight_ExclusiveBounds(flight) ==
    /\ flight.stops < 2
    /\ flight.totalMinutes < 30 * 60
    /\ \A i \in 1..Len(flight.layoverMinutes) : flight.layoverMinutes[i] < maxLayover

isValidFlight(flight) ==
    /\ flight.stops <= 2
    /\ flight.totalMinutes <= 30 * 60
    /\ \A i \in 1..Len(flight.layoverMinutes) : flight.layoverMinutes[i] <= maxLayover

-----------------------------------------------------------------------------
(* Dates of the sweep, src/index.ts:65-75 *)

HoursPerDay == 24

\* new Date("2024-09-27"), new Date("2024-10-02"): midnight UTC of the day
startDate == 0 * HoursPerDay
endDate == 5 * HoursPerDay

\* d.toISOString().split("T")[0]: the UTC calendar day of an instant
ISODays ==
    << "2024-09-27", "2024-09-28", "2024-09-29", "2024-09-30",
       "2024-10-01", "2024-10-02", "2024-10-03" >>

toISODate(t) == ISODays[(t \div HoursPerDay) + 1]

\* Time zones the process may run in.  Pacific/Auckland starts daylight
\* saving on 2024-09-29 at 02:00 local time, which is 2024-09-28T14:00Z.
TimeZones == {"UTC", "Pacific/Auckland"}

AucklandDstStart == 1 * HoursPerDay + 14

\* local time minus UTC, in hours, at the instant t
LocalOffset(zone, t) ==
    CASE zone = "UTC" -> 0
      [] zone = "Pacific/Auckland" -> IF t < AucklandDstStart THEN 12 ELSE 13

\* the instant whose local time in zone is local
FromLocal(zone, local) ==
    CHOOSE u \in (local - 14)..(local + 14) : u + LocalOffset(zone, u) = local

\* d.setDate(d.getDate() + 1): the next local calendar day at the same local
\* time of day
setDateNext(zone, t) ==
    LET local == t + LocalOffset(zone, t)
        day == local \div HoursPerDay
        timeOfDay == local % HoursPerDay
    IN  FromLocal(zone, (day + 1) * HoursPerDay + timeOfDay)

\* the loop condition d <= endDate
LoopCond_Exclusive(t) == t < endDate

LoopCond(t) == t <= endDate

-----------------------------------------------------------------------------
(* Array.prototype.sort((a, b) => a.numericPrice - b.numericPrice) *)

\* the comparator's result as sort uses it: a NaN result counts as +0
Compare(a, b) ==
    IF a.numericPrice.nan \/ b.numericPrice.nan THEN 0
    ELSE a.numericPrice.v - b.numericPrice.v

\* The steps below are those Node's engine (V8, TimSort) takes on an array
\* shorter than 64 elements: the run at the start of the array is found and
\* made ascending, and each later element is put into it by binary search.
\* For a consistent comparator this is the stable ascending order every
\* ECMAScript 2019 engine gives; the comparator above is not consistent once
\* a NaN price stands among two different prices, and the order then is the
\* one these steps leave.

\* CountAndMakeRun: whether the run at the start of s is a descending one
StartsDescending(s) == Len(s) >= 2 /\ Compare(s[2], s[1]) < 0

\* CountAndMakeRun: the length of the run at the start of s
RECURSIVE RunLengthFrom(_, _)
RunLengthFrom(s, idx) ==
    IF idx > Len(s) THEN Len(s)
    ELSE LET order == Compare(s[idx], s[idx - 1])
         IN  IF (StartsDescending(s) /\ order >= 0)
                \/ (~StartsDescending(s) /\ order < 0)
             THEN idx - 1
             ELSE RunLengthFrom(s, idx + 1)

RunLength(s) == IF Len(s) < 2 THEN Len(s) ELSE RunLengthFrom(s, 3)

\* CountAndMakeRun: s with a descending run at its start reversed
MakeRun(s) ==
    LET n == RunLength(s)
    IN  IF StartsDescending(s)
        THEN [i \in 1..Len(s) |-> IF i <= n THEN s[n + 1 - i] ELSE s[i]]
        ELSE s

\* BinaryInsertionSort: where the pivot goes among s[left .. right - 1]
RECURSIVE InsertionPoint(_, _, _, _)
InsertionPoint(s, pivot, left, right) ==
    IF left >= right THEN left
    ELSE LET mid == left + ((right - left) \div 2)
         IN  IF Compare(pivot, s[mid]) < 0
             THEN InsertionPoint(s, pivot, left, mid)
             ELSE InsertionPoint(s, pivot, mid + 1, right)

\* BinaryInsertionSort: s[1 .. start - 1] is in order; s[start], s[start + 1],
\* ... are put into it one after the other
RECURSIVE BinaryInsertionSort(_, _)
BinaryInsertionSort(s, start) ==
    IF start > Len(s) THEN s
    ELSE LET at == InsertionPoint(s, s[start], 1, start)
             moved == SubSeq(s, 1, at - 1) \o << s[start] >>
                      \o SubSeq(s, at, start - 1) \o SubSeq(s, start + 1, Len(s))
         IN  BinaryInsertionSort(moved, start + 1)

\* what sort leaves in the array
ArraySort(s) ==
    IF Len(s) < 2 THEN s ELSE BinaryInsertionSort(MakeRun(s), RunLength(s) + 1)

-----------------------------------------------------------------------------
(* The scripts: run() and main() *)

\* values of the run's variables while only a pure function is being called
NoRun ==
    /\ variant = "none"
    /\ tz = "UTC"
    /\ session = "none"
    /\ fault = "none"
    /\ d = 0
    /\ allFlights = << >>
    /\ units = << >>
    /\ reported = << >>
    /\ ranked = 0

NoRaw ==
    [airlines |-> "", price |-> << >>, totalDuration |-> << >>, stops |-> 0,
     layovers |-> Absent]

NoProbe ==
    /\ durText = << >>
    /\ durResult = 0
    /\ rawIn = NoRaw
    /\ parsedOut = parseFlight(NoRaw)
    /\ validOut = FALSE

SeqsUpTo(S, n) == UNION {[1..k -> S] : k \in 0..n}

\* records page.extract may return in the model
OfferA ==
    [airlines |-> "Air Canada", price |-> << "$", "5", "0", "0" >>,
     totalDuration |-> << "3", "0", "h" >>, stops |-> 2,
     layovers |-> Some(<< << "5", "h" >> >>)]
OfferB ==
    [airlines |-> "Lufthansa", price |-> << "$", "3", "0", "0">>,
     totalDuration |-> << "7", "h", " ", "4", "5", "m" >>, stops |-> 1,
     layovers |-> Some(<< << "2", "h", " ", "3", "0", "m" >> >>)]
OfferN ==
    [airlines |-> "Air India", price |-> << "N", "/", "A" >>,
     totalDuration |-> << "2", "0", "h" >>, stops |-> 1,
     layovers |-> Absent]
OfferX ==
    [airlines |-> "United", price |-> << "$", "1", "0", "0" >>,
     totalDuration |-> << "2", "0", "h" >>, stops |-> 3,
     layovers |-> Absent]

Offers == {OfferA, OfferB, OfferN, OfferX}

\* number of records the completed units returned
RecordCount(us) ==
    LET Sum[i \in 0..Len(us)] ==
            IF i = 0 THEN 0 ELSE Sum[i - 1] + Len(us[i].flights)
    IN  Sum[Len(us)]

\* what one page.extract call may resolve to
Extractions(us) ==
    LET room == MaxRecords - RecordCount(us)
    IN  SeqsUpTo(Offers, IF room < MaxPerUnit THEN room ELSE MaxPerUnit)

\* { ...parsed, departureDate: iso }
Tagged(parsed, iso) ==
    [airlines |-> parsed.airlines,
     price |-> parsed.price,
     totalDuration |-> parsed.totalDuration,
     stops |-> parsed.stops,
     layovers |-> parsed.layovers,
     numericPrice |-> parsed.numericPrice,
     totalMinutes |-> parsed.totalMinutes,
     layoverMinutes |-> parsed.layoverMinutes,
     departureDate |-> iso]

\* flights.forEach(...): acc after the records of one unit were parsed and
\* the valid ones pushed, in their order
RECURSIVE PushValid_FirstDate(_, _, _)
PushValid_FirstDate(acc, flights, iso) ==
    IF flights = << >> THEN acc
    ELSE LET parsed == parseFlight(Head(flights))
         IN  PushValid_FirstDate(
                 IF isValidFlight(parsed)
                 THEN Append(acc, Tagged(parsed, toISODate(startDate)))
                 ELSE acc,
                 Tail(flights), iso)

RECURSIVE PushValid(_, _, _)
PushValid(acc, flights, iso) ==
    IF flights = << >> THEN acc
    ELSE LET parsed == parseFlight(Head(flights))
         IN  PushValid(
                 IF isValidFlight(parsed)
                 THEN Append(acc, Tagged(parsed, iso))
                 ELSE acc,
                 Tail(flights), iso)

Init ==
    /\ variant \in {"sweep", "single"}
    /\ tz \in TimeZones
    /\ pc = "init"
    /\ session = "none"
    /\ fault = "none"
    /\ d = startDate
    /\ allFlights = << >>
    /\ units = << >>
    /\ reported = << >>
    /\ ranked = 0
    /\ NoProbe

\* an awaited call rejects: nothing catches it, main() and run() reject
Reject(call) ==
    /\ fault' = call
    /\ pc' = "rejected"
    /\ UNCHANGED << variant, tz, session, d, allFlights, units, reported,
                    ranked, probeVars >>

\* run(): await stagehand.init(), then main() up to its first await
StagehandInit ==
    /\ pc = "init"
    /\ session' = "open"
    /\ pc' = IF variant = "sweep" THEN "goto" ELSE "single_goto"
    /\ UNCHANGED << variant, tz, fault, d, allFlights, units, reported,
                    ranked, probeVars >>

\* index.ts: await page.goto(url)
Goto ==
    /\ pc = "goto"
    /\ \/ /\ pc' = "waitForLoadState"
          /\ UNCHANGED << runVars, probeVars >>
       \/ Reject("goto")

\* index.ts: await page.waitForLoadState("networkidle")
WaitForLoadState ==
    /\ pc = "waitForLoadState"
    /\ \/ /\ pc' = "waitForSelector"
          /\ UNCHANGED << runVars, probeVars >>
       \/ Reject("waitForLoadState")

\* index.ts: await page.waitForSelector(..., { timeout: 30000 })
WaitForSelector ==
    /\ pc = "waitForSelector"
    /\ \/ /\ pc' = "extract"
          /\ UNCHANGED << runVars, probeVars >>
       \/ Reject("waitForSelector")

\* index.ts: await page.extract(...), the forEach, the loop step, and when
\* the loop ends the sort, console.log and stagehand.log, up to run()'s
\* await stagehand.close()
Extract ==
    /\ pc = "extract"
    /\ \/ \E flights \in Extractions(units) :
             LET iso == toISODate(d)
                 acc == PushValid(allFlights, flights, iso)
                 next == setDateNext(tz, d)
             IN  /\ units' = Append(units, [iso |-> iso, flights |-> flights])
                 /\ d' = next
                 /\ IF LoopCond(next)
                    THEN /\ allFlights' = acc
                         /\ pc' = "goto"
                         /\ UNCHANGED << reported, ranked >>
                    ELSE /\ allFlights' = ArraySort(acc)
                         /\ ranked' = ranked + 1
                         /\ reported' = allFlights'
                         /\ pc' = "close"
                 /\ UNCHANGED << variant, tz, session, fault, probeVars >>
       \/ Reject("extract")

\* run(): await stagehand.close()
StagehandClose ==
    /\ pc = "close"
    /\ session' = "closed"
    /\ pc' = "done"
    /\ UNCHANGED << variant, tz, fault, d, allFlights, units, reported,
                    ranked, probeVars >>

\* part_000: the records page.extract may return carry a departureDate
WithDepartureDate(flight, date) ==
    [airlines |-> flight.airlines,
     price |-> flight.price,
     totalDuration |-> flight.totalDuration,
     stops |-> flight.stops,
     layovers |-> flight.layovers,
     departureDate |-> date]

SingleOffers == {WithDepartureDate(f, "2024-09-27") : f \in Offers}

SingleExtractions == SeqsUpTo(SingleOffers, MaxPerUnit)

\* part_000: { ...f, numericPrice: parseFloat(f.price.replace(...)) }
WithNumericPrice(f) ==
    [airlines |-> f.airlines,
     price |-> f.price,
     totalDuration |-> f.totalDuration,
     stops |-> f.stops,
     layovers |-> f.layovers,
     departureDate |-> f.departureDate,
     numericPrice |-> parseFloat(StripPrice(f.price))]

\* part_000: await page.goto("https://www.google.com/travel/flights?hl=en")
SingleGoto ==
    /\ pc = "single_goto"
    /\ \/ /\ pc' = "single_search"
          /\ UNCHANGED << runVars, probeVars >>
       \/ Reject("goto")

\* part_000: await page.act("Search for flights ...")
SingleActSearch ==
    /\ pc = "single_search"
    /\ \/ /\ pc' = "single_filter"
          /\ UNCHANGED << runVars, probeVars >>
       \/ Reject("act")

\* part_000: await page.act("Filter results ... then sort results by price")
SingleActFilter ==
    /\ pc = "single_filter"
    /\ \/ /\ pc' = "single_extract"
          /\ UNCHANGED << runVars, probeVars >>
       \/ Reject("act")

\* part_000: await page.extract(...), the map and sort, console.log and
\* stagehand.log, up to run()'s await stagehand.close()
SingleExtract ==
    /\ pc = "single_extract"
    /\ \/ \E flights \in SingleExtractions :
             LET mapped == [i \in 1..Len(flights) |-> WithNumericPrice(flights[i])]
             IN  /\ units' = Append(units, [iso |-> "", flights |-> flights])
                 /\ reported' = ArraySort(mapped)
                 /\ ranked' = ranked + 1
                 /\ pc' = "close"
                 /\ UNCHANGED << variant, tz, session, fault, d, allFlights,
                                 probeVars >>
       \/ Reject("extract")

Next ==
    \/ StagehandInit
    \/ Goto
    \/ WaitForLoadState
    \/ WaitForSelector
    \/ Extract
    \/ SingleGoto
    \/ SingleActSearch
    \/ SingleActFilter
    \/ SingleExtract
    \/ StagehandClose

Spec == Init /\ [][Next]_vars

-----------------------------------------------------------------------------
(* Direct calls of the pure functions on bounded inputs *)

\* characters of the duration texts: digits, both markers, a blank
DurationAlphabet == {"0", "1", "5", "h", "m", " "}

DurationTexts == SeqsUpTo(DurationAlphabet, MaxTextLen)

InitParse ==
    /\ NoRun
    /\ pc = "parseDuration"
    /\ durText \in DurationTexts
    /\ durResult = 0
    /\ rawIn = NoRaw
    /\ parsedOut = parseFlight(NoRaw)
    /\ validOut = FALSE

CallParseDuration ==
    /\ pc = "parseDuration"
    /\ durResult' = parseDuration(durText)
    /\ pc' = "returned"
    /\ UNCHANGED << runVars, durText, rawIn, parsedOut, validOut >>

NextParse == CallParseDuration

SpecParse == InitParse /\ [][NextParse]_vars

\* raw offers given to a direct parseFlight call
ProbePrices == { << "$", "3", "0", "0" >>, << "N", "/", "A" >> }
ProbeTotals == { << "2", "9", "h", " ", "5", "9", "m" >>,
                 << "3", "0", "h" >>,
                 << "3", "0", "h", " ", "1", "m" >>,
                 << "m", "i", "n" >> }
ProbeStops == 0..4
ProbeLayoverTexts == { << "4", "h", " ", "5", "9", "m" >>,
                       << "5", "h" >>,
                       << "5", "h", " ", "1", "m" >> }
ProbeLayovers ==
    {Absent} \cup {Some(ls) : ls \in SeqsUpTo(ProbeLayoverTexts, MaxLayovers)}

ProbeOffers ==
    [airlines : {"AC"}, price : ProbePrices, totalDuration : ProbeTotals,
     stops : ProbeStops, layovers : ProbeLayovers]

InitFilter ==
    /\ NoRun
    /\ pc = "parseFlight"
    /\ durText = << >>
    /\ durResult = 0
    /\ rawIn \in ProbeOffers
    /\ parsedOut = parseFlight(NoRaw)
    /\ validOut = FALSE

CallParseFlight ==
    /\ pc = "parseFlight"
    /\ parsedOut' = parseFlight(rawIn)
    /\ pc' = "isValidFlight"
    /\ UNCHANGED << runVars, durText, durResult, rawIn, validOut >>

CallIsValidFlight ==
    /\ pc = "isValidFlight"
    /\ validOut' = isValidFlight(parsedOut)
    /\ pc' = "returned"
    /\ UNCHANGED << runVars, durText, durResult, rawIn, parsedOut >>

NextFilter == CallParseFlight \/ CallIsValidFlight

SpecFilter == InitFilter /\ [][NextFilter]_vars

-----------------------------------------------------------------------------
(* C4: parseDuration *)

\* the digit runs of text that blanks and then the marker follow, by the
\* position of their first digit
ComponentStarts(text, marker) ==
    {i \in 1..Len(text) :
        /\ IsDigit(text[i])
        /\ (i = 1 \/ ~IsDigit(text[i - 1]))
        /\ \E k \in (i + 1)..Len(text) :
              /\ text[k] = marker
              /\ \E j \in i..(k - 1) :
                    /\ \A x \in i..j : IsDigit(text[x])
                    /\ \A x \in (j + 1)..(k - 1) : IsSpace(text[x])}

\* the number a digit run starting at i spells
RunValue(text, i) ==
    LET j == CHOOSE e \in i..Len(text) :
                 /\ \A x \in i..e : IsDigit(text[x])
                 /\ (e = Len(text) \/ ~IsDigit(text[e + 1]))
        place(x) == Pow10(j - x)
        Sum[x \in i..(j + 1)] ==
            IF x > j THEN 0 ELSE DigitVal(text[x]) * place(x) + Sum[x + 1]
    IN  Sum[i]

\* the number in the first such component, 0 when there is none
Component(text, marker) ==
    LET starts == ComponentStarts(text, marker)
    IN  IF starts = {} THEN 0 ELSE RunValue(text, Min(starts))

\* C4: parseDuration returns 60*h + m, h the number of the hour component
\* (digits, then an "h"), m the number of the minute component (digits, then
\* an "m"), each looked for on its own; a missing component counts 0, and a
\* text with neither gives 0.
C4_ParseDurationTotalDefaulting ==
    pc = "returned" =>
        durResult = 60 * Component(durText, "h") + Component(durText, "m")

\* a text with the minute component before the hour component, and one with
\* a minute component only, have been parsed
C4_Witness ==
    /\ pc = "returned"
    /\ durText = << "5", "m", "1", "h" >>
    /\ durResult = 65

-----------------------------------------------------------------------------
(* C3: isValidFlight *)

\* C3: for a normalized offer with a numeric price, isValidFlight is true
\* exactly when stops <= 2, totalMinutes <= 1800 and every layover <= 300,
\* all inclusive; an empty layover sequence passes whatever the stop count.
C3_AdmissionBoundsInclusive ==
    (pc = "returned" /\ ~parsedOut.numericPrice.nan) =>
        /\ validOut <=>
              /\ parsedOut.stops <= 2
              /\ parsedOut.totalMinutes <= 1800
              /\ \A i \in 1..Len(parsedOut.layoverMinutes) :
                    parsedOut.layoverMinutes[i] <= 300
        /\ (/\ parsedOut.stops = 2
            /\ parsedOut.totalMinutes = 1800
            /\ parsedOut.layoverMinutes \in {<< >>, << 300 >>, << 300, 300 >>})
           => validOut
        /\ (\/ parsedOut.stops = 3
            \/ parsedOut.totalMinutes = 1801
            \/ \E i \in 1..Len(parsedOut.layoverMinutes) :
                  parsedOut.layoverMinutes[i] = 301)
           => ~validOut

\* an offer on all three bounds has been admitted
C3_Witness ==
    /\ pc = "returned"
    /\ ~parsedOut.numericPrice.nan
    /\ parsedOut.stops = 2
    /\ parsedOut.totalMinutes = 1800
    /\ parsedOut.layoverMinutes = << 300, 300 >>
    /\ validOut

-----------------------------------------------------------------------------
(* Claims about the run *)

SweepPositions == {"goto", "waitForLoadState", "waitForSelector", "extract"}
SinglePositions == {"single_goto", "single_search", "single_filter", "single_extract"}

\* parseFlight and isValidFlight tabulated over the records of the model
ParsedOffer == [f \in Offers |-> parseFlight(f)]
AdmittedOffer == [f \in Offers |-> isValidFlight(ParsedOffer[f])]

\* the records of one completed unit that pass the admission filter, each
\* normalized and tagged with the unit's date
AdmittedOf(unit) ==
    LET kept == SelectSeq(unit.flights, LAMBDA f : AdmittedOffer[f])
    IN  [i \in 1..Len(kept) |-> Tagged(ParsedOffer[kept[i]], unit.iso)]

\* the admitted records of the completed units, in unit order
RECURSIVE ExpectedAccumulation(_)
ExpectedAccumulation(us) ==
    IF us = << >> THEN << >>
    ELSE ExpectedAccumulation(SubSeq(us, 1, Len(us) - 1)) \o AdmittedOf(us[Len(us)])

Occurrences(s, x) == Cardinality({i \in 1..Len(s) : s[i] = x})

\* s and t hold the same entries the same number of times
SameEntries(s, t) ==
    /\ Len(s) = Len(t)
    /\ \A i \in 1..Len(s) : Occurrences(s, s[i]) = Occurrences(t, s[i])

\* C1: no offer whose price is not a number is in the accumulated or final
\* result set of the sweep.
C1_NoNaNPriceInResult ==
    variant = "sweep" =>
        \A i \in 1..Len(allFlights) : ~allFlights[i].numericPrice.nan

\* C2: in both scripts every reported offer passed the admission filter:
\* at most 2 stops, at most 1800 minutes in total, every layover at most 300.
C2_ReportedOffersAdmitted ==
    \A i \in 1..Len(reported) :
        LET o == reported[i]
            layoverMinutes == LayoverMinutes(o.layovers)
        IN  /\ o.stops <= 2
            /\ parseDuration(o.totalDuration) <= 1800
            /\ \A k \in 1..Len(layoverMinutes) : layoverMinutes[k] <= 300

NumLess(a, b) == ~a.nan /\ ~b.nan /\ a.v < b.v
NumEqual(a, b) == ~a.nan /\ ~b.nan /\ a.v = b.v

\* out is acc rearranged with no offer before a cheaper one and offers of
\* equal price in their order in acc
StableAscending(out, acc) ==
    /\ Len(out) = Len(acc)
    /\ \E f \in [1..Len(acc) -> 1..Len(acc)] :
          /\ \A i, j \in 1..Len(acc) : f[i] = f[j] => i = j
          /\ \A i \in 1..Len(acc) : out[i] = acc[f[i]]
          /\ \A i, j \in 1..Len(acc) :
                i < j =>
                    /\ ~NumLess(out[j].numericPrice, out[i].numericPrice)
                    /\ NumEqual(out[i].numericPrice, out[j].numericPrice)
                          => f[i] < f[j]

\* C5: the final result of the sweep is the accumulation in ascending order
\* of numeric price, offers of equal price in the order they were accumulated.
C5_RankedStableAscending ==
    (variant = "sweep" /\ pc \in {"close", "done"}) =>
        StableAscending(reported, ExpectedAccumulation(units))

\* C6: the result set of the sweep holds exactly the admitted records of
\* every completed unit, each once per time it was returned and tagged with
\* the date of its unit: in unit and arrival order while the sweep runs, and
\* the same entries once it is ranked.
C6_ExactlyAdmittedTaggedByUnit ==
    variant = "sweep" =>
        /\ pc \in SweepPositions \cup {"rejected"}
              => allFlights = ExpectedAccumulation(units)
        /\ pc \in {"close", "done"}
              => /\ SameEntries(allFlights, ExpectedAccumulation(units))
                 /\ reported = allFlights

\* the same offer came back from two units of different dates and is in the
\* final result twice, once under each date
C6_Witness ==
    /\ variant = "sweep"
    /\ pc = "done"
    /\ \E u, w \in 1..Len(units) :
          /\ units[u].iso # units[w].iso
          /\ units[u].flights = << OfferA >>
          /\ units[w].flights = << OfferA >>
          /\ \E i, j \in 1..Len(reported) :
                /\ reported[i] = Tagged(parseFlight(OfferA), units[u].iso)
                /\ reported[j] = Tagged(parseFlight(OfferA), units[w].iso)
          /\ Len(reported) = 2

\* C7: a unit whose extraction returns no record adds nothing to the
\* accumulation and does not end the sweep: the run is not rejected, and
\* while the next date is not after the end date the next unit is navigated
\* to with the accumulation as it was.
C7_EmptyUnitSkipped ==
    [][(/\ variant = "sweep"
        /\ pc = "extract"
        /\ Len(units') = Len(units) + 1
        /\ units'[Len(units')].flights = << >>)
       => /\ pc' # "rejected"
          /\ fault' = "none"
          /\ SameEntries(allFlights', allFlights)
          /\ (d' <= 5 * 24) => (pc' = "goto" /\ allFlights' = allFlights)
          /\ (d' > 5 * 24) => pc' = "close"]_vars

\* a unit returned nothing between two units that returned an admitted offer,
\* and the sweep ran to its end with both offers
C7_Witness ==
    /\ variant = "sweep"
    /\ pc = "done"
    /\ Len(units) = 6
    /\ units[4].flights = << OfferA >>
    /\ units[5].flights = << >>
    /\ units[6].flights = << OfferB >>
    /\ Len(reported) = 2

\* C8: in the sweep a positioning failure (navigation, or a wait that times
\* out) does not end the run: the unit is skipped and the sweep goes on.
C8_PositioningFailureSkipsUnit ==
    (variant = "sweep"
     /\ fault \in {"goto", "waitForLoadState", "waitForSelector"})
        => pc # "rejected"

\* C9: the session is open whenever a unit is positioned or extracted, and
\* it is closed when the run has ended, whichever way it ended.
C9_SessionScoped ==
    /\ pc \in SweepPositions \cup SinglePositions => session = "open"
    /\ pc \in {"done", "rejected"} => session = "closed"

\* C10: a sweep in which no call fails processes one unit for each date from
\* 2024-09-27 to 2024-10-02, in ascending order, and ranks once.
C10_OneUnitPerDateAscending ==
    (variant = "sweep" /\ pc \in {"close", "done"}) =>
        /\ [i \in 1..Len(units) |-> units[i].iso]
              = << "2024-09-27", "2024-09-28", "2024-09-29", "2024-09-30",
                   "2024-10-01", "2024-10-02" >>
        /\ ranked = 1

=============================================================================
